---- MODULE Spec2Model ----
(***************************************************************************)
(* Model of libyul/backends/evm/SSAEVMCodeTransform.cpp: the stack         *)
(* scheduler (SSAEVMCodeTransform) and its top-level driver (run).         *)
(*                                                                         *)
(* Two specifications are given over the same state:                       *)
(*   Spec     one scheduler instance whose member functions are called in  *)
(*            any order (blockData(b).stackIn = ..., operator()(BlockId),  *)
(*            pop, swap);                                                  *)
(*   SpecRun  the static driver SSAEVMCodeTransform::run, statement by     *)
(*            statement.                                                   *)
(* pop and swap have no caller in the source (their callers are the        *)
(* "todo" bodies), so Spec lets them be called at any point of a block     *)
(* traversal at which an operation handler may run.                        *)
(***************************************************************************)
EXTENDS Integers, Sequences, FiniteSets, TLC

VARIABLES
    operations,       \* m_cfg.block(b).operations, per block
    liveOut,          \* m_liveness.operationsLiveOut(b), per block
    policy,           \* _useNamedLabelsForFunctions
    functions,        \* controlFlow->functionGraphMapping, in iteration order
    m_blockData,      \* per block: optional label, optional stackIn
    m_stack,          \* the working stack, last = top
    m_stackErrors,    \* the instance's violation list
    m_functionLabels, \* function index -> label, of the current instance
    m_currentBlock,
    saved,            \* value held by ScopedSaveAndRestore stackSave
    pc,               \* position of the instance: idle, ops, unwinding
    opIdx,            \* index of the next operation of the traversed block
    fault,            \* the assertion that failed in the last call, or none
    lastCall,         \* <<member function, argument>> that acted last
    processed,        \* calls operator()(op, liveOut) made by the traversal
    stream,           \* requests received by the instruction sink, in order
    nextLabel,        \* the sink's label counter
    stackHeight,      \* the sink's stack height
    rpc,              \* position of run
    unit,             \* number of function units constructed so far
    stackErrors,      \* run's local result vector
    recorded          \* every violation recorded, in recording order

vars == <<operations, liveOut, policy, functions, m_blockData, m_stack,
          m_stackErrors, m_functionLabels, m_currentBlock, saved, pc, opIdx,
          fault, lastCall, processed, stream, nextLabel, stackHeight, rpc,
          unit, stackErrors, recorded>>

cfgVars == <<operations, liveOut, policy, functions>>
runVars == <<rpc, unit, stackErrors, recorded>>

----------------------------------------------------------------------------
(* Bounds *)

MaxOps == 2
MaxEmit == 6
MaxErrors == 2
MaxFunctions == 2

(* The deepest swap the machine can address (SWAP16). *)
MaxSwapDepth == 16

----------------------------------------------------------------------------
(* Data *)

Blocks == {0, 1}

NullOpt == [has |-> FALSE, val |-> <<>>]
NoLabel == [has |-> FALSE, val |-> 0]
Some(v) == [has |-> TRUE, val |-> v]

EmptyBlockData == [b \in Blocks |-> [label |-> NoLabel, stackIn |-> NullOpt]]

(* An operation: declared inputs and outputs (value ids). *)
OpDefine == [inputs |-> <<>>, outputs |-> <<1>>]
OpConsume == [inputs |-> <<1>>, outputs |-> <<2>>]
Operations == {OpDefine, OpConsume}

(* The operation lists of a block: a value is defined, then consumed, ...   *)
OpSeqs == {[i \in 1..n |-> IF i % 2 = 1 THEN OpDefine ELSE OpConsume] :
              n \in 0..MaxOps}

RECURSIVE Reverse(_)
Reverse(s) == IF s = <<>> THEN <<>> ELSE Append(Reverse(Tail(s)), Head(s))

(* n live-out records, the i-th one distinguishable from the others. *)
LiveOutRecords(n) == [i \in 1..n |-> {i}]

DeepLayout == [i \in 1..(MaxSwapDepth + 2) |-> (i % 2) + 1]
Layouts == {<<>>, <<1, 2>>, DeepLayout}
Depths == {1, MaxSwapDepth, MaxSwapDepth + 1}

Policies == {"Never", "YesAndAllowDuplicates", "YesAndForceUnique"}
NoAstId == [has |-> FALSE, val |-> 0]
(* A function with its graph's argument and return counts and the astID    *)
(* of its debug data, if any.                                              *)
FunctionSet == {[name |-> "f", arguments |-> 2, returns |-> 1,
                 astID |-> Some(7)],
                [name |-> "g", arguments |-> 0, returns |-> 0,
                 astID |-> NoAstId]}
FunctionLists == UNION {[1..n -> FunctionSet] : n \in 0..MaxFunctions}

Min(a, b) == IF a < b THEN a ELSE b

(* m_cfg.valueInfo(v): value 1 is the literal 5, the others are ordinary.  *)
valueInfo(v) == IF v = 1 THEN [kind |-> "Literal", value |-> 5]
                ELSE [kind |-> "Ordinary", value |-> 0]

(* The label counters the sink may have when run is entered. *)
LabelBases == {1, 3}

----------------------------------------------------------------------------
(* The instruction sink (AbstractAssembly) *)

Request(req, name, arg) == [req |-> req, name |-> name, arg |-> arg]

(* m_assembly.namedLabel(name, arguments, returns, astID) answering id. *)
NamedLabelRequest(f, id) ==
    [req |-> "namedLabel", name |-> f.name, arg |-> id,
     arguments |-> f.arguments, returns |-> f.returns, astID |-> f.astID]

(* evmasm::swapInstruction(n): the SWAPn instruction. *)
swapInstruction(n) == Request("appendInstruction", "SWAP", n)
PopInstruction == Request("appendInstruction", "POP", 0)

(* Net effect of an instruction on the sink's stack height. *)
InstructionEffect(ins) == IF ins.name = "POP" THEN -1 ELSE 0

----------------------------------------------------------------------------
(* Helpers of the scheduler *)

(* A driver that forces a one-slot layout instead of the empty one. *)
ForcedEntryLayoutNonEmpty == <<1>>

(* run, line 83: the layout forced on block 0 of the main unit. *)
ForcedEntryLayout == <<>>

(* A traversal that allocates a label on every visit. *)
BlockLabelAlwaysFresh(b) == nextLabel

(* operator()(BlockId), lines 173-175: the label the block is given. *)
BlockLabel(b) ==
    IF m_blockData[b].label.has THEN m_blockData[b].label.val ELSE nextLabel

(* A traversal without the assertion on the entry layout. *)
HasLayoutUnchecked(b) == TRUE

(* operator()(BlockId), line 181: yulAssert(stackIn). *)
HasLayout(b) == m_blockData[b].stackIn.has

(* A traversal that reports the index of the top slot as the height. *)
ReportedHeightOffByOne(s) == Len(s) - 1

(* operator()(BlockId), line 186: the height handed to setStackHeight. *)
ReportedHeight(s) == Len(s)

(* A traversal without the assertion on the counts. *)
OperationCountsUnchecked(b) == TRUE

(* operator()(BlockId), line 189: the asserted equality of the counts. *)
OperationCountsMatch(b) == Len(operations[b]) = Len(liveOut[b])

(* Number of pairs ranges::zip_view yields for the block, line 190. *)
ZipLength(b) == Min(Len(operations[b]), Len(liveOut[b]))

(* An operation handler that discards the top slot. *)
OperationHandlerDiscards(s, op, live) == SubSeq(s, 1, Len(s) - 1)

(* operator()(Operation const&, set<ValueId> const&), lines 194-197. *)
OperationHandler(s, op, live) == s

(* A pop that removes the bottom slot instead of the top one. *)
PopFront(s) == Tail(s)

(* pop, line 152: m_stack.pop_back(). *)
PopBack(s) == SubSeq(s, 1, Len(s) - 1)

(* A swap that forgets the -1 of the index and exchanges one slot higher. *)
SwapSlotsOffByOne(s, d) ==
    [i \in 1..Len(s) |->
        IF i = Len(s) THEN s[Len(s) - d + 1]
        ELSE IF i = Len(s) - d + 1 THEN s[Len(s)]
        ELSE s[i]]

(* A swap that appends the instruction and leaves the model as it was. *)
SwapSlotsForgotten(s, d) == s

(* swap, line 160: std::swap(m_stack[size - depth - 1], m_stack.back()). *)
SwapSlots(s, d) ==
    [i \in 1..Len(s) |->
        IF i = Len(s) THEN s[Len(s) - d]
        ELSE IF i = Len(s) - d THEN s[Len(s)]
        ELSE s[i]]

(* A traversal that leaves its working stack behind. *)
RestoreSkipped(savedValue, current) == current

(* ScopedSaveAndRestore, line 170: the value m_stack gets back when the    *)
(* traversal is left.                                                      *)
Restored(savedValue, current) == savedValue

(* A driver that assigns a unit's violations instead of appending them. *)
AssignErrors(acc, errs) == errs

(* run, line 102: stackErrors.insert(stackErrors.end(), begin, end). *)
AppendErrors(acc, errs) == acc \o errs

----------------------------------------------------------------------------
(* Member functions of one scheduler instance *)

(* operator()(BlockId), lines 163-189: save the stack, define the block's  *)
(* label, load the entry layout, report the height, compare the counts.    *)
BlockBegin(b) ==
    /\ pc = "idle"
    /\ Len(stream) + 3 <= MaxEmit
    /\ LET lbl == BlockLabel(b)
           alloc == IF m_blockData[b].label.has THEN <<>>
                    ELSE <<Request("newLabelId", "", lbl)>>
           defined == stream \o alloc \o <<Request("appendLabel", "", lbl)>>
           layout == m_blockData[b].stackIn.val
       IN /\ m_currentBlock' = b
          /\ saved' = m_stack
          /\ m_blockData' = [m_blockData EXCEPT ![b].label = Some(lbl)]
          /\ nextLabel' = nextLabel + Len(alloc)
          /\ IF ~HasLayout(b)
             THEN /\ m_stack' = <<>>
                  /\ stream' = defined
                  /\ stackHeight' = stackHeight
                  /\ fault' = "noLayout"
                  /\ pc' = "unwinding"
             ELSE /\ m_stack' = layout
                  /\ stream' = Append(defined,
                        Request("setStackHeight", "", ReportedHeight(layout)))
                  /\ stackHeight' = ReportedHeight(layout)
                  /\ IF OperationCountsMatch(b)
                     THEN fault' = "none" /\ pc' = "ops"
                     ELSE fault' = "opCount" /\ pc' = "unwinding"
    /\ opIdx' = 1
    /\ processed' = <<>>
    /\ lastCall' = <<"block", b>>
    /\ UNCHANGED <<cfgVars, m_stackErrors, m_functionLabels>>

(* operator()(BlockId), lines 190-191: one iteration of the loop. *)
OperationStep ==
    /\ pc = "ops"
    /\ opIdx <= ZipLength(m_currentBlock)
    /\ LET op == operations[m_currentBlock][opIdx]
           live == liveOut[m_currentBlock][opIdx]
       IN /\ m_stack' = OperationHandler(m_stack, op, live)
          /\ processed' = Append(processed, <<op, live>>)
    /\ opIdx' = opIdx + 1
    /\ lastCall' = <<"operation", opIdx>>
    /\ UNCHANGED <<cfgVars, runVars, m_blockData, m_stackErrors,
                   m_functionLabels, m_currentBlock, saved, pc, fault, stream,
                   nextLabel, stackHeight>>

(* operator()(BlockId), line 192: the loop is over, stackSave restores. *)
BlockEnd ==
    /\ pc = "ops"
    /\ opIdx > ZipLength(m_currentBlock)
    /\ m_stack' = Restored(saved, m_stack)
    /\ pc' = "idle"
    /\ lastCall' = <<"return", m_currentBlock>>
    /\ UNCHANGED <<cfgVars, runVars, m_blockData, m_stackErrors,
                   m_functionLabels, m_currentBlock, saved, opIdx, fault,
                   processed, stream, nextLabel, stackHeight>>

(* A failed yulAssert leaves operator()(BlockId): stackSave restores. *)
Unwind ==
    /\ pc = "unwinding"
    /\ m_stack' = Restored(saved, m_stack)
    /\ pc' = "idle"
    /\ lastCall' = <<"unwind", m_currentBlock>>
    /\ UNCHANGED <<cfgVars, runVars, m_blockData, m_stackErrors,
                   m_functionLabels, m_currentBlock, saved, opIdx, fault,
                   processed, stream, nextLabel, stackHeight>>

(* pop, lines 149-154. *)
Pop ==
    /\ pc = "ops"
    /\ Len(stream) < MaxEmit
    /\ IF m_stack = <<>>
       THEN /\ fault' = "popEmpty"
            /\ pc' = "unwinding"
            /\ UNCHANGED <<m_stack, stream, stackHeight>>
       ELSE /\ m_stack' = PopBack(m_stack)
            /\ stream' = Append(stream, PopInstruction)
            /\ stackHeight' = stackHeight + InstructionEffect(PopInstruction)
            /\ UNCHANGED <<fault, pc>>
    /\ lastCall' = <<"pop", 0>>
    /\ UNCHANGED <<cfgVars, runVars, m_blockData, m_stackErrors,
                   m_functionLabels, m_currentBlock, saved, opIdx, processed,
                   nextLabel>>

(* swap, lines 156-161: the instruction is appended before the assertion. *)
Swap(d) ==
    /\ pc = "ops"
    /\ Len(stream) < MaxEmit
    /\ stream' = Append(stream, swapInstruction(d))
    /\ stackHeight' = stackHeight + InstructionEffect(swapInstruction(d))
    /\ IF Len(m_stack) > d
       THEN /\ m_stack' = SwapSlots(m_stack, d)
            /\ UNCHANGED <<fault, pc>>
       ELSE /\ fault' = "swapDepth"
            /\ pc' = "unwinding"
            /\ UNCHANGED m_stack
    /\ lastCall' = <<"swap", d>>
    /\ UNCHANGED <<cfgVars, runVars, m_blockData, m_stackErrors,
                   m_functionLabels, m_currentBlock, saved, opIdx, processed,
                   nextLabel>>

(* blockData(b).stackIn = std::make_optional(layout), as run does, line 83. *)
SetStackIn(b, layout) ==
    /\ pc = "idle"
    /\ m_blockData' = [m_blockData EXCEPT ![b].stackIn = Some(layout)]
    /\ lastCall' = <<"stackIn", b>>
    /\ UNCHANGED <<cfgVars, m_stack, m_stackErrors, m_functionLabels,
                   m_currentBlock, saved, pc, opIdx, fault, processed, stream,
                   nextLabel, stackHeight>>

----------------------------------------------------------------------------
(* Specification of one instance *)

(* The graph handed to a scheduler: block 0 has any operations and any     *)
(* number of live-out records, block 1 the same operations reversed and a  *)
(* matching number of records.                                             *)
InitCfg ==
    /\ \E os \in OpSeqs, n \in 0..MaxOps :
          /\ operations = [b \in Blocks |-> IF b = 0 THEN os ELSE Reverse(os)]
          /\ liveOut = [b \in Blocks |->
                          LiveOutRecords(IF b = 0 THEN n ELSE Len(os))]

(* The state the constructor leaves (lines 108-142) for a graph without a  *)
(* function, with an untouched sink.                                       *)
InitInstance ==
    /\ m_blockData = EmptyBlockData
    /\ m_stack = <<>>
    /\ m_stackErrors = <<>>
    /\ m_functionLabels = <<>>
    /\ m_currentBlock = 0
    /\ saved = <<>>
    /\ pc = "idle"
    /\ opIdx = 1
    /\ fault = "none"
    /\ lastCall = <<"constructor", 0>>
    /\ processed = <<>>
    /\ stream = <<>>
    /\ stackHeight = 0
    /\ unit = 0
    /\ stackErrors = <<>>
    /\ recorded = <<>>

Init ==
    /\ InitCfg
    /\ policy = "Never"
    /\ functions = <<>>
    /\ InitInstance
    /\ nextLabel = 1
    /\ rpc = "none"

Traverse == \E b \in Blocks : BlockBegin(b) /\ UNCHANGED runVars

(* A block's entry layout is established once. *)
Establish == \E b \in Blocks, layout \in Layouts :
    /\ ~m_blockData[b].stackIn.has
    /\ SetStackIn(b, layout)
    /\ UNCHANGED runVars

SwapCall == \E d \in Depths : Swap(d)

Next ==
    \/ Establish
    \/ Traverse
    \/ OperationStep
    \/ BlockEnd
    \/ Unwind
    \/ Pop
    \/ SwapCall

Spec == Init /\ [][Next]_vars

----------------------------------------------------------------------------
(* The driver: SSAEVMCodeTransform::run, lines 62-106 *)

(* Constructor, lines 124-125: the names assigned so far are a set local   *)
(* to the constructor call, so the name being inserted is never in it.     *)
NameAlreadySeen(name) ==
    LET assignedFunctionNames == {}
    IN name \in assignedFunctionNames

(* A constructor that names labels whatever the policy. *)
UseNamedLabelAlways(name) == TRUE

(* A constructor that names labels under the wrong policy. *)
UseNamedLabelInverted(name) == policy = "Never"

(* Constructor, line 128. *)
UseNamedLabel(name) == policy # "Never" /\ ~NameAlreadySeen(name)

(* A driver that walks the functions from the last to the first. *)
FunctionAtReversed(k) == functions[Len(functions) + 1 - k]

(* run, line 90: the k-th entry of functionGraphMapping in iteration order. *)
FunctionAt(k) == functions[k]

(* getFunctionLabel, lines 144-147: m_functionLabels.at(&_function). *)
getFunctionLabel(k) == m_functionLabels[k]

(* Lines 73-80: the scheduler of the main graph; it has no function, so    *)
(* no label is requested.                                                  *)
RunConstructMain ==
    /\ rpc = "start"
    /\ rpc' = "constructed"
    /\ m_functionLabels' = <<>>
    /\ m_blockData' = EmptyBlockData
    /\ m_stack' = <<>>
    /\ m_stackErrors' = <<>>
    /\ lastCall' = <<"constructor", 0>>
    /\ UNCHANGED <<cfgVars, m_currentBlock, saved, pc, opIdx, fault,
                   processed, stream, nextLabel, stackHeight, unit,
                   stackErrors, recorded>>

(* Line 83. *)
RunForceEntry ==
    /\ rpc = "constructed"
    /\ SetStackIn(0, ForcedEntryLayout)
    /\ rpc' = "forced"
    /\ UNCHANGED <<unit, stackErrors, recorded>>

(* Line 84. *)
RunTraverseMain ==
    /\ rpc = "forced"
    /\ BlockBegin(0)
    /\ rpc' = "main"
    /\ UNCHANGED <<unit, stackErrors, recorded>>

(* A Depth-Limit Violation is recorded in the list of the unit being       *)
(* scheduled (design sections 4.4 and 7); the source has no statement      *)
(* that does so.                                                           *)
RecordStackError ==
    /\ \/ rpc = "main" /\ pc = "ops"
       \/ rpc = "function"
    /\ Len(m_stackErrors) < MaxErrors
    /\ LET e == [unit |-> unit, point |-> Len(m_stackErrors) + 1]
       IN /\ m_stackErrors' = Append(m_stackErrors, e)
          /\ recorded' = Append(recorded, e)
    /\ UNCHANGED <<cfgVars, m_blockData, m_stack, m_functionLabels,
                   m_currentBlock, saved, pc, opIdx, fault, lastCall,
                   processed, stream, nextLabel, stackHeight, rpc, unit,
                   stackErrors>>

(* Lines 86-88. *)
RunCollectMain ==
    /\ rpc = "main"
    /\ pc = "idle"
    /\ fault = "none"
    /\ stackErrors' = IF m_stackErrors # <<>> THEN m_stackErrors
                      ELSE stackErrors
    /\ rpc' = "loop"
    /\ UNCHANGED <<cfgVars, m_blockData, m_stack, m_stackErrors,
                   m_functionLabels, m_currentBlock, saved, pc, opIdx, fault,
                   lastCall, processed, stream, nextLabel, stackHeight, unit,
                   recorded>>

(* Lines 90-99 and the constructor, lines 108-142, for the next function.  *)
RunConstructFunction ==
    /\ rpc = "loop"
    /\ unit < Len(functions)
    /\ unit' = unit + 1
    /\ lastCall' = <<"constructor", unit + 1>>
    /\ LET f == FunctionAt(unit + 1)
       IN IF policy = "YesAndForceUnique" /\ NameAlreadySeen(f.name)
          THEN /\ fault' = "duplicateName"
               /\ rpc' = "aborted"
               /\ UNCHANGED <<m_functionLabels, m_blockData, m_stack,
                              m_stackErrors, stream, nextLabel>>
          ELSE /\ stream' = Append(stream,
                     IF UseNamedLabel(f.name)
                     THEN NamedLabelRequest(f, nextLabel)
                     ELSE Request("newLabelId", "", nextLabel))
               /\ nextLabel' = nextLabel + 1
               /\ m_functionLabels' = [i \in {unit + 1} |-> nextLabel]
               /\ m_blockData' = EmptyBlockData
               /\ m_stack' = <<>>
               /\ m_stackErrors' = <<>>
               /\ rpc' = "function"
               /\ UNCHANGED fault
    /\ UNCHANGED <<cfgVars, m_currentBlock, saved, pc, opIdx, processed,
                   stackHeight, stackErrors, recorded>>

(* Lines 100-102: operator()(Scope::Function const&, SSACFG const&) has an *)
(* empty body (lines 199-202); then the unit's violations are appended.    *)
RunCompileFunction ==
    /\ rpc = "function"
    /\ stackErrors' = IF m_stackErrors # <<>>
                      THEN AppendErrors(stackErrors, m_stackErrors)
                      ELSE stackErrors
    /\ rpc' = "loop"
    /\ lastCall' = <<"function", unit>>
    /\ UNCHANGED <<cfgVars, m_blockData, m_stack, m_stackErrors,
                   m_functionLabels, m_currentBlock, saved, pc, opIdx, fault,
                   processed, stream, nextLabel, stackHeight, unit, recorded>>

(* Line 105. *)
RunReturn ==
    /\ rpc = "loop"
    /\ unit = Len(functions)
    /\ rpc' = "returned"
    /\ UNCHANGED <<cfgVars, m_blockData, m_stack, m_stackErrors,
                   m_functionLabels, m_currentBlock, saved, pc, opIdx, fault,
                   lastCall, processed, stream, nextLabel, stackHeight, unit,
                   stackErrors, recorded>>

(* A failed assertion of the main traversal leaves run. *)
RunAbort ==
    /\ rpc = "main"
    /\ pc = "idle"
    /\ fault # "none"
    /\ rpc' = "aborted"
    /\ UNCHANGED <<cfgVars, m_blockData, m_stack, m_stackErrors,
                   m_functionLabels, m_currentBlock, saved, pc, opIdx, fault,
                   lastCall, processed, stream, nextLabel, stackHeight, unit,
                   stackErrors, recorded>>

InitRun ==
    /\ InitCfg
    /\ policy \in Policies
    /\ functions \in FunctionLists
    /\ InitInstance
    /\ nextLabel \in LabelBases
    /\ rpc = "start"

NextRun ==
    \/ RunConstructMain
    \/ RunForceEntry
    \/ RunTraverseMain
    \/ OperationStep
    \/ BlockEnd
    \/ Unwind
    \/ RecordStackError
    \/ RunCollectMain
    \/ RunConstructFunction
    \/ RunCompileFunction
    \/ RunReturn
    \/ RunAbort

SpecRun == InitRun /\ [][NextRun]_vars

----------------------------------------------------------------------------
(* Properties *)

IsSuffix(t, s) ==
    /\ Len(t) <= Len(s)
    /\ SubSeq(s, Len(s) - Len(t) + 1, Len(s)) = t

LastRequest == stream[Len(stream)]

(* C1: in run, block 0 of the main unit has the empty required-entry       *)
(* layout when it is traversed, so the traversal of the main entry block   *)
(* starts with an empty working stack and reports the height 0 to the      *)
(* sink.                                                                   *)
C1_MainEntryEmpty ==
    (rpc = "main" /\ lastCall = <<"block", 0>>) =>
        /\ m_blockData[0].stackIn = Some(<<>>)
        /\ m_currentBlock = 0
        /\ m_stack = <<>>
        /\ stackHeight = 0
        /\ LastRequest = Request("setStackHeight", "", 0)

C1_Witness ==
    /\ rpc = "main"
    /\ lastCall = <<"block", 0>>
    /\ pc = "ops"
    /\ opIdx = 1
    /\ operations[0] # <<>>

(* C2: while a block is traversed, whatever pops and swaps were made, the  *)
(* stack height known to the sink equals the number of slots of the        *)
(* working stack whenever an instruction can be emitted.                   *)
C2_HeightMatchesModel == pc = "ops" => stackHeight = Len(m_stack)

C2_Witness ==
    /\ pc = "ops"
    /\ lastCall[1] = "swap"
    /\ m_stack # <<>>
    /\ \E i \in 1..Len(stream) : stream[i] = PopInstruction

(* C3: when an operation is processed its declared inputs are the top of   *)
(* the working stack, in order, and right after it its declared outputs    *)
(* are the top of the working stack, in declared order.                    *)
C3_OperandsAndResults ==
    [][Len(processed') = Len(processed) + 1 =>
          LET op == processed'[Len(processed')][1]
          IN /\ IsSuffix(op.inputs, m_stack)
             /\ IsSuffix(op.outputs, m_stack')]_vars

(* C4: a swap whose depth is above the addressable bound is never         *)
(* appended to the sink: a program point that needs a slot lying deeper    *)
(* than the bound (the slot is on the working stack, the swap does not     *)
(* fault) records exactly one violation and appends no such instruction.   *)
C4_DepthBound ==
    (lastCall[1] = "swap" /\ lastCall[2] > MaxSwapDepth /\ fault = "none") =>
        /\ \A i \in 1..Len(stream) :
              stream[i].name = "SWAP" => stream[i].arg <= MaxSwapDepth
        /\ Len(m_stackErrors) = 1

(* C5: run returns the violations of the main unit followed by those of    *)
(* every function unit in processing order, none lost or duplicated, and   *)
(* every function unit has been scheduled when it returns.                 *)
C5_ViolationsAggregated ==
    rpc = "returned" =>
        /\ stackErrors = recorded
        /\ unit = Len(functions)

C5_Witness ==
    /\ rpc = "returned"
    /\ Len(functions) >= 2
    /\ \E i, j \in 1..Len(stackErrors) :
          stackErrors[i].unit = 0 /\ stackErrors[j].unit = Len(functions)

(* C6: a traversal of a block without a required-entry layout fails with   *)
(* the internal fault: the working stack is not loaded, no height is       *)
(* reported after the label, and no operation is processed.                *)
C6_NoLayoutFault ==
    (pc \in {"ops", "unwinding"} /\ ~m_blockData[m_currentBlock].stackIn.has) =>
        /\ pc = "unwinding"
        /\ fault = "noLayout"
        /\ m_stack = <<>>
        /\ processed = <<>>
        /\ LastRequest = Request("appendLabel", "",
                                 m_blockData[m_currentBlock].label.val)

C6_Witness ==
    /\ pc = "unwinding"
    /\ fault = "noLayout"
    /\ operations[m_currentBlock] # <<>>
    /\ Len(stream) > 2

(* C7: if the block's operation count differs from its live-out record     *)
(* count the traversal fails before any operation is processed; otherwise  *)
(* the operations are processed in block order, the i-th with the i-th     *)
(* live-out record, and all of them when the traversal returns.            *)
C7_CountsChecked ==
    /\ LET b == m_currentBlock
       IN (pc \in {"ops", "unwinding"} /\ m_blockData[b].stackIn.has) =>
        IF Len(operations[b]) # Len(liveOut[b])
        THEN pc = "unwinding" /\ fault = "opCount" /\ processed = <<>>
        ELSE /\ opIdx - 1 <= Len(operations[b])
             /\ processed =
                  [i \in 1..(opIdx - 1) |-> <<operations[b][i], liveOut[b][i]>>]
    /\ (pc = "idle" /\ lastCall[1] = "return") =>
          Len(processed) = Len(operations[m_currentBlock])

C7_Witness ==
    /\ pc = "unwinding"
    /\ fault = "opCount"
    /\ Len(operations[m_currentBlock]) > Len(liveOut[m_currentBlock])
    /\ Len(liveOut[m_currentBlock]) > 0

(* C8: under YesAndForceUnique, constructing the scheduler of a function   *)
(* whose name an earlier function unit of the same run already registered  *)
(* raises the internal fault.                                              *)
C8_DuplicateNameFaults ==
    (/\ policy = "YesAndForceUnique"
     /\ lastCall[1] = "constructor"
     /\ unit >= 2
     /\ \E i \in 1..(unit - 1) : functions[i].name = functions[unit].name)
    => fault = "duplicateName"

(* C9: a block's label, once assigned, never changes; a traversal          *)
(* allocates it from the sink only when the block has none, and appends    *)
(* its definition before any height report and before any operation of     *)
(* the block is processed.                                                 *)
C9_LabelAssignedOnce ==
    [][/\ \A b \in Blocks :
             m_blockData[b].label.has =>
                 m_blockData'[b].label = m_blockData[b].label
       /\ lastCall'[1] = "block" =>
             LET b == lastCall'[2]
                 lbl == m_blockData'[b].label
                 new == SubSeq(stream', Len(stream) + 1, Len(stream'))
                 rest == IF m_blockData[b].label.has THEN new ELSE Tail(new)
             IN /\ lbl.has
                /\ SubSeq(stream', 1, Len(stream)) = stream
                /\ ~m_blockData[b].label.has =>
                      /\ Head(new) = Request("newLabelId", "", lbl.val)
                      /\ \A c \in Blocks \ {b} : m_blockData[c].label # lbl
                /\ Head(rest) = Request("appendLabel", "", lbl.val)
                /\ \A i \in 2..Len(rest) : rest[i].req = "setStackHeight"
                /\ Len(rest) <= 2
                /\ processed' = <<>>]_vars

C9_Witness ==
    \E i, j \in 1..Len(stream) :
        /\ i < j
        /\ stream[i].req = "appendLabel"
        /\ stream[j] = stream[i]
        /\ \E k \in 1..Len(stream) :
              stream[k].req = "appendLabel" /\ stream[k] # stream[i]

(* C10: pop on a non-empty working stack removes exactly the top slot,     *)
(* leaves the slots below in place and appends exactly one POP; on an      *)
(* empty working stack it raises the internal fault and appends nothing.   *)
C10_PopFrame ==
    [][lastCall'[1] = "pop" =>
          IF m_stack # <<>>
          THEN /\ Len(m_stack') = Len(m_stack) - 1
               /\ \A i \in 1..Len(m_stack') : m_stack'[i] = m_stack[i]
               /\ stream' = Append(stream, PopInstruction)
               /\ fault' = "none"
               /\ pc' = "ops"
          ELSE /\ fault' = "popEmpty"
               /\ pc' = "unwinding"
               /\ stream' = stream
               /\ m_stack' = m_stack]_vars

C10_Witness ==
    /\ lastCall[1] = "pop"
    /\ fault = "none"
    /\ pc = "ops"
    /\ m_stack = <<1>>


OnStack(v, s) == \E k \in 1..Len(s) : s[k] = v

(* C11: processing operation j of the traversed block takes no value off   *)
(* the working stack that is in the live-out set of operation j or of a    *)
(* later operation of the block.                                           *)
C11_LiveValuesKept ==
    [][Len(processed') = Len(processed) + 1 =>
          LET b == m_currentBlock
              j == Len(processed')
          IN \A i \in j..Len(liveOut[b]) : \A v \in liveOut[b][i] :
                OnStack(v, m_stack) => OnStack(v, m_stack')]_vars

C11_Witness ==
    /\ lastCall[1] = "operation"
    /\ pc = "ops"
    /\ Len(processed) >= 1
    /\ m_stack # <<>>
    /\ \E v \in liveOut[m_currentBlock][Len(processed)] :
          m_stack[Len(m_stack)] = v


(* C12: a block with the empty entry layout and the single operation that  *)
(* takes no input and produces one literal output with the constant c:     *)
(* once the operation is processed the sink holds exactly one              *)
(* push-constant(c) and the working stack is the one slot of that value.   *)
C12_LiteralPushed ==
    (/\ rpc = "main"
     /\ lastCall = <<"operation", 1>>
     /\ m_blockData[0].stackIn = Some(<<>>)
     /\ operations[0] = <<OpDefine>>
     /\ valueInfo(OpDefine.outputs[1]).kind = "Literal")
    => /\ m_stack = OpDefine.outputs
       /\ Cardinality({i \in 1..Len(stream) :
              /\ stream[i].req = "appendInstruction"
              /\ stream[i].name = "PUSH"
              /\ stream[i].arg = valueInfo(OpDefine.outputs[1]).value}) = 1
       /\ Cardinality({i \in 1..Len(stream) :
              stream[i].req = "appendInstruction"}) = 1


(* C13: constructing the scheduler of the main graph requests no label and *)
(* leaves the function label table empty; constructing the scheduler of a  *)
(* function requests exactly one label for it, anonymous under Never and   *)
(* named with the function's name, argument count, return count and        *)
(* optional debug id under the two naming policies, and the table maps     *)
(* that function alone to the label.                                       *)
C13_FunctionLabelTable ==
    [][/\ (rpc = "start" /\ rpc' = "constructed") =>
             /\ m_functionLabels' = <<>>
             /\ stream' = stream
             /\ nextLabel' = nextLabel
       /\ rpc' \in {"constructed", "forced", "main"} => m_functionLabels' = <<>>
       /\ unit' = unit + 1 =>
             LET f == functions[unit']
                 id == nextLabel
                 anonymous == [req |-> "newLabelId", name |-> "", arg |-> id]
                 named == [req |-> "namedLabel", name |-> f.name, arg |-> id,
                           arguments |-> f.arguments, returns |-> f.returns,
                           astID |-> f.astID]
             IN /\ DOMAIN m_functionLabels' = {unit'}
                /\ m_functionLabels'[unit'] = id
                /\ nextLabel' = id + 1
                /\ stream' = Append(stream, IF policy = "Never" THEN anonymous
                                            ELSE named)]_vars

C13_Witness ==
    /\ rpc = "function"
    /\ unit = 2
    /\ policy = "YesAndAllowDuplicates"
    /\ LastRequest.req = "namedLabel"
    /\ LastRequest.astID = Some(7)
    /\ LastRequest.arguments = 2
    /\ getFunctionLabel(unit) = LastRequest.arg


(* C14: once a function unit is compiled, block 0 of the function has a    *)
(* required-entry layout built from the calling convention (its arguments  *)
(* and a return-label slot, so not the empty layout) and has been          *)
(* traversed: it has its label and the label is defined in the sink.       *)
C14_FunctionEntryLayout ==
    (lastCall[1] = "function" /\ unit >= 1) =>
        /\ m_blockData[0].stackIn.has
        /\ Len(m_blockData[0].stackIn.val) = functions[unit].arguments + 1
        /\ m_blockData[0].label.has
        /\ \E i \in 1..Len(stream) :
              stream[i] = Request("appendLabel", "", m_blockData[0].label.val)


LabelRequests == {"newLabelId", "namedLabel"}

(* The number a label gets when labels are numbered in the order in which  *)
(* the stream requests them from the sink.                                 *)
LabelRank(id, s) ==
    LET allocs == {i \in 1..Len(s) : s[i].req \in LabelRequests}
        first == CHOOSE i \in allocs : s[i].arg = id
    IN Cardinality({j \in allocs : j <= first})

(* The stream with every label identity replaced by its rank. *)
Canonical(s) ==
    [i \in 1..Len(s) |->
        IF s[i].req \in LabelRequests \cup {"appendLabel"}
        THEN [s[i] EXCEPT !.arg = LabelRank(s[i].arg, s)]
        ELSE s[i]]

(* The stream of a run under Never that has constructed k function units,  *)
(* up to the names of the labels: it depends on the program alone.         *)
ExpectedNeverStream(k) ==
    <<Request("newLabelId", "", 1), Request("appendLabel", "", 1),
      Request("setStackHeight", "", 0)>>
    \o [i \in 1..k |-> Request("newLabelId", "", i + 1)]

(* C15: under Never, whatever label identities the sink hands out, the     *)
(* stream of a run is, up to a renaming of the labels, a function of the   *)
(* program and the unit order: labels are requested in the same order at   *)
(* the same points, so two runs on the same program give streams equal up  *)
(* to label renaming.                                                      *)
C15_LabelsDeterministic ==
    (policy = "Never" /\ rpc \in {"main", "loop", "function", "returned",
                                  "aborted"}) =>
        /\ Canonical(stream) = ExpectedNeverStream(unit)
        /\ rpc = "returned" => unit = Len(functions)

C15_Witness ==
    /\ policy = "Never"
    /\ rpc = "returned"
    /\ Len(functions) = 2
    /\ stream[1].arg # 1
    /\ Canonical(stream) # stream


(* The stack s with its top slot and the slot d below the top exchanged. *)
Exchanged(s, d) ==
    [i \in 1..Len(s) |->
        CASE i = Len(s) -> s[Len(s) - d]
          [] i = Len(s) - d -> s[Len(s)]
          [] OTHER -> s[i]]

(* C16: swap(d) on a working stack of more than d slots exchanges the top  *)
(* slot with the slot d below it and leaves every other slot and the       *)
(* length unchanged, so a second swap(d) would restore the stack; on a     *)
(* working stack of d or fewer slots it raises the internal fault and      *)
(* leaves the working stack unchanged.                                     *)
C16_SwapFrame ==
    [][lastCall'[1] = "swap" =>
          LET d == lastCall'[2]
              n == Len(m_stack)
          IN IF n > d
             THEN /\ Len(m_stack') = n
                  /\ m_stack'[n] = m_stack[n - d]
                  /\ m_stack'[n - d] = m_stack[n]
                  /\ \A i \in 1..n : i \notin {n, n - d} =>
                        m_stack'[i] = m_stack[i]
                  /\ Exchanged(m_stack', d) = m_stack
                  /\ fault' = "none"
                  /\ pc' = "ops"
             ELSE /\ m_stack' = m_stack
                  /\ fault' = "swapDepth"
                  /\ pc' = "unwinding"]_vars

C16_Witness ==
    /\ lastCall[1] = "swap"
    /\ lastCall[2] > 1
    /\ fault = "none"
    /\ pc = "ops"
    /\ Len(m_stack) > lastCall[2] + 1
    /\ m_stack[Len(m_stack)] # m_stack[Len(m_stack) - lastCall[2]]


(* C17: the sink receives the units in processing order without            *)
(* interleaving: nothing before the main traversal; then the requests of   *)
(* the main unit (label of block 0, its definition, the stack height);     *)
(* then, after all of them, one group per function unit constructed so     *)
(* far, the k-th group being the label request of the k-th function of     *)
(* the mapping.                                                            *)
C17_UnitsInOrder ==
    /\ rpc \in {"start", "constructed", "forced"} => stream = <<>>
    /\ rpc = "main" => unit = 0
    /\ rpc \in {"main", "loop", "function", "returned", "aborted"} =>
          /\ Len(stream) = 3 + unit
          /\ stream[1] = Request("newLabelId", "", stream[1].arg)
          /\ stream[2] = Request("appendLabel", "", stream[1].arg)
          /\ stream[3] = Request("setStackHeight", "", 0)
          /\ \A k \in 1..unit :
                /\ stream[3 + k].req =
                      (IF policy = "Never" THEN "newLabelId" ELSE "namedLabel")
                /\ stream[3 + k].name =
                      (IF policy = "Never" THEN "" ELSE functions[k].name)
                /\ stream[3 + k].arg = stream[1].arg + k

C17_Witness ==
    /\ rpc = "returned"
    /\ policy = "YesAndForceUnique"
    /\ Len(functions) = 2
    /\ functions[1].name # functions[2].name
    /\ Len(stream) = 5


(* The effect of one POP or SWAPn instruction on a stack. *)
ReplayOne(s, ins) ==
    IF ins.name = "POP" THEN SubSeq(s, 1, Len(s) - 1)
    ELSE Exchanged(s, ins.arg)

RECURSIVE Replay(_, _)
Replay(s, instructions) ==
    IF instructions = <<>> THEN s
    ELSE Replay(ReplayOne(s, Head(instructions)), Tail(instructions))

(* The requests the sink received after the last height report. *)
SinceEntry ==
    LET reports == {i \in 1..Len(stream) : stream[i].req = "setStackHeight"}
        last == CHOOSE i \in reports : \A j \in reports : j <= i
    IN SubSeq(stream, last + 1, Len(stream))

(* C18: during a traversal in which no call has faulted, the requests the  *)
(* sink received since the block's height report are POP and SWAP          *)
(* instructions only, and replaying them on a copy of the block's entry    *)
(* layout gives exactly the working stack.                                 *)
C18_StreamReplaysModel ==
    pc = "ops" =>
        /\ \A i \in 1..Len(SinceEntry) :
              /\ SinceEntry[i].req = "appendInstruction"
              /\ SinceEntry[i].name \in {"POP", "SWAP"}
        /\ Replay(m_blockData[m_currentBlock].stackIn.val, SinceEntry) = m_stack

C18_Witness ==
    /\ pc = "ops"
    /\ lastCall[1] = "pop"
    /\ Len(SinceEntry) >= 3
    /\ \E i \in 1..Len(SinceEntry) : SinceEntry[i].name = "SWAP"
    /\ m_stack # <<>>
    /\ m_stack # SubSeq(m_blockData[m_currentBlock].stackIn.val, 1,
                        Len(m_stack))


(* C19: a traversal keeps the value the working stack had when it started  *)
(* and gives it back when it is left, by return or by a failed assertion,  *)
(* whatever pops and swaps were made; no step of a traversal changes a     *)
(* block's stored required-entry layout.                                   *)
C19_TraversalRestoresStack ==
    [][/\ (pc = "idle" /\ lastCall'[1] = "block") => saved' = m_stack
       /\ pc # "idle" => saved' = saved
       /\ (pc # "idle" /\ pc' = "idle") => m_stack' = saved
       /\ (pc # "idle" \/ lastCall'[1] = "block") =>
             \A b \in Blocks :
                 m_blockData'[b].stackIn = m_blockData[b].stackIn]_vars

C19_Witness ==
    /\ pc = "idle"
    /\ lastCall[1] = "unwind"
    /\ fault = "swapDepth"
    /\ \E i \in 1..Len(stream) : stream[i] = PopInstruction
    /\ Len(m_blockData[m_currentBlock].stackIn.val) > 2
    /\ m_stack = saved

====
